---- MODULE Spec2Model ----
(***************************************************************************)
(* Turn-aware delivery of computer-agent updates (GeninAssistant,          *)
(* JoninAssistant, the Assistant classes of main.py) and the tunnel        *)
(* connections the updates arrive on (RemoteTunnel, OpenCodeClient).       *)
(***************************************************************************)
EXTENDS Integers, Sequences, FiniteSets, TLC

\* Number of backend updates a behaviour may receive.
MaxUpdates == 3

\* Number of connect() calls a behaviour may make on one tunnel object.
MaxConnects == 2

\* Number of envelopes a behaviour may write to the sockets.
MaxPubs == 2
MaxFrames == 3
MaxSockets == 2
MaxCreates == 2

Updates == 1..MaxUpdates

Conns == 1..MaxConnects

Adapters == {"RemoteTunnel", "OpenCodeClient", "AgnoClient"}

\* Update ids are handed out in arrival order: update u is the u-th one received.

VARIABLES
    assistant,    \* which assistant class owns the session
    agent_state,  \* session.agent_state, owned by the conversational engine
    task_queue,   \* self.task_queue (asyncio Queue), a FIFO of update ids
    history,      \* session.history: the updates add_message was called with
    chat_ctx,     \* the updates added to a turn's context by on_user_turn_completed
    replies,      \* the updates session.generate_reply was called with
    inflight,     \* <<u>> while the handler awaits generate_reply for u, else <<>>
    received,     \* number of updates received so far
    via,          \* via[u]: the path update u arrived on
    arrivedIn,    \* arrivedIn[u]: whether the agent was busy or idle when u arrived
    fate,         \* fate[u]: what the delivery path has done with update u last
    surfaced,     \* updates surfaced to the user, in the order it happened
    op,           \* "recv", "turn" or "pub" when that handler ran last, else "other"
    adapter,      \* which tunnel class the connection object is
    websocket,    \* self.websocket: <<>> for None, else <<k>> for socket k
    is_connected, \* self._is_connected
    sock,         \* sock[k]: state of the socket opened by the k-th connect()
    loop,         \* loop[k]: the receive loop task started by the k-th connect()
    connects,     \* number of connect() calls so far
    written,      \* written[k]: envelopes written to socket k
    pubResult,    \* what the last pub()/publish()/send_message() returned
    pubWhy,       \* the branch the last pub()/publish()/send_message() took
    lastEvent,    \* the last connection lifecycle event
    askResult,    \* what the last ask_computer_agent call told the conversation
    \* one connection's receive loop, frame by frame
    lpc,          \* where the receive loop is: "none", "recv", "callback", "done"
    wsock,        \* the connection: "unopened", "open", "closed_ok", "closed_err"
    rx,           \* the frames read so far, by kind, in arrival order
    calls,        \* positions in rx of the frames the callback was invoked for
    buffer,       \* GooseClient.current_streaming_content, as positions in rx
    has_callback, \* a subscriber callback is registered
    \* the task envelopes an adapter writes
    envelopes,    \* the envelopes written to the socket, in order
    pubArgs,      \* the arguments of the last pub() / send_message() call
    pubRet,       \* what that call returned
    in_flight,    \* tasks published with no completed/needs_input/error update yet
    \* the executor-side WebSocketManager (one per process) and its endpoints
    mgr,          \* the manager's websocket, agent, connection_id, user_id
    ep,           \* per inbound connection: where websocket_endpoint is
    cleanups,     \* per executor: how many cleanup() tasks were scheduled
    lastSend,     \* the last text written to an inbound socket
    sev,          \* the last thing an endpoint did
    \* the registries
    registry,     \* AgentFactory._AGENT_REGISTRY: name -> <<class>>, <<>> if absent
    agent_type_env, \* the AGENT_TYPE environment variable, <<>> if unset
    instances,    \* per class, how many times it was instantiated
    fcall,        \* the last registry call and its outcome
    \* the task_update envelope of the agno-agent client
    task_update,  \* the TaskUpdate handed to send_task_update
    wire,         \* the JSON text written to the socket, <<>> before the send
    decoded,      \* the TaskUpdate _receive_messages hands to the callback
    \* the AtlasTunnel of the voice agent
    atlas,        \* _initialized, _task_states, _callback, the listen loop
    \* one execute_task_stream request of the sandbox executor
    stream,       \* the event queue, the background task, the SSE generator
    \* the on-device desktop agent server
    session_manager \* SessionManager.sessions, the clients, the last HTTP answer

dvars == <<assistant, agent_state, task_queue, history, chat_ctx, replies,
           inflight, received, via, arrivedIn, fate, surfaced>>

tvars == <<adapter, websocket, is_connected, sock, loop, connects, written,
           pubResult, pubWhy, lastEvent, askResult>>

lvars == <<lpc, wsock, rx, calls, buffer, has_callback>>

pvars == <<envelopes, pubArgs, pubRet, in_flight>>

svars == <<mgr, ep, cleanups, lastSend, sev>>

fvars == <<registry, agent_type_env, instances, fcall>>

cvars == <<task_update, wire, decoded>>

ovars == <<atlas, stream, session_manager>>

xvars == <<pvars, svars, fvars, cvars, ovars>>

vars == <<dvars, tvars, lvars, xvars, op>>

AgentStates == {"idle", "speaking", "thinking"}

Assistants == {"genin", "jonin", "main"}

\* ------------------------------------------------------------------------
\* Helpers on sequences

Range(s) == {s[i] : i \in DOMAIN s}

Count(x, s) == Cardinality({i \in DOMAIN s : s[i] = x})

\* ------------------------------------------------------------------------
\* The pieces of the handlers

\* genin.py:104  session.agent_state == "speaking" or == "thinking"
IsBusy(s) == s = "speaking" \/ s = "thinking"

Busyness(s) == IF IsBusy(s) THEN "busy" ELSE "idle"

put_front(q, u) == <<u>> \o q

\* Queue.put_nowait on an unbounded asyncio Queue: append at the tail
put_nowait(q, u) == Append(q, u)

EmptyOrLast(q) == Len(q) <= 1

\* Queue.empty()
QueueEmpty(q) == q = <<>>

DropAll(q) == <<>>

\* Queue.get_nowait(): the head is returned, the rest stays queued in order
get_nowait_rest(q) == Tail(q)

RequeueNever(q, u, interrupted) == q

\* genin.py:112-113  if speech_handle.interrupted: put_nowait(response_text)
Requeue(q, u, interrupted) == IF interrupted THEN put_nowait(q, u) ELSE q

\* The handler of voice-agent/main.py has no busy branch: it always replies.
QueuesWhenBusy(a) == a \in {"genin", "jonin"}

DNew(a) ==
    /\ assistant = a
    /\ agent_state = "idle"
    /\ task_queue = <<>>
    /\ history = <<>>
    /\ chat_ctx = <<>>
    /\ replies = <<>>
    /\ inflight = <<>>
    /\ received = 0
    /\ via = [u \in Updates |-> "none"]
    /\ arrivedIn = [u \in Updates |-> "none"]
    /\ fate = [u \in Updates |-> "none"]
    /\ surfaced = <<>>

\* The conversational engine moves the session between its states.
EngineSetState(s) ==
    /\ s # agent_state
    /\ agent_state' = s
    /\ op' = "other"
    /\ UNCHANGED <<tvars, lvars, xvars>>
    /\ UNCHANGED <<assistant, task_queue, history, chat_ctx, replies, inflight,
                   received, via, arrivedIn, fate, surfaced>>

\* agent_response_handler(response_text), up to its first await.  The receive
\* loop awaits the handler, so no update is received while one is in flight.
agent_response_handler ==
    /\ inflight = <<>>
    /\ received < MaxUpdates
    /\ LET u == received + 1 IN
        /\ received' = u
        /\ via' = [via EXCEPT ![u] = "tunnel"]
        /\ arrivedIn' = [arrivedIn EXCEPT ![u] = Busyness(agent_state)]
        /\ history' = Append(history, u)
        /\ IF QueuesWhenBusy(assistant) /\ IsBusy(agent_state)
           THEN /\ task_queue' = put_nowait(task_queue, u)
                /\ fate' = [fate EXCEPT ![u] = "queued"]
                /\ UNCHANGED <<replies, inflight>>
           ELSE /\ replies' = Append(replies, u)
                /\ inflight' = <<u>>
                /\ fate' = [fate EXCEPT ![u] = "inflight"]
                /\ UNCHANGED task_queue
    /\ op' = "recv"
    /\ UNCHANGED <<tvars, lvars, xvars>>
    /\ UNCHANGED <<assistant, agent_state, chat_ctx, surfaced>>

\* The awaited speech handle completes, interrupted or not.
generate_reply_returns(interrupted) ==
    /\ inflight # <<>>
    /\ task_queue' = Requeue(task_queue, Head(inflight), interrupted)
    /\ fate' = [fate EXCEPT ![Head(inflight)] =
                    IF interrupted THEN "interrupted" ELSE "spoken"]
    /\ surfaced' = IF interrupted THEN surfaced
                   ELSE Append(surfaced, Head(inflight))
    /\ inflight' = <<>>
    /\ op' = "other"
    /\ UNCHANGED <<tvars, lvars, xvars>>
    /\ UNCHANGED <<assistant, agent_state, history, chat_ctx, replies,
                   received, via, arrivedIn>>

\* generate_reply raises: the handler has no try block, the exception ends it
\* and is logged by the receive loop's handler.
generate_reply_raises ==
    /\ inflight # <<>>
    /\ fate' = [fate EXCEPT ![Head(inflight)] = "raised"]
    /\ inflight' = <<>>
    /\ op' = "other"
    /\ UNCHANGED <<tvars, lvars, xvars>>
    /\ UNCHANGED <<assistant, agent_state, task_queue, history, chat_ctx,
                   replies, received, via, arrivedIn, surfaced>>

\* on_user_turn_completed(turn_ctx, new_message)
on_user_turn_completed ==
    /\ IF QueueEmpty(task_queue)
       THEN UNCHANGED <<task_queue, history, chat_ctx, fate, surfaced>>
       ELSE LET u == Head(task_queue) IN
            /\ task_queue' = get_nowait_rest(task_queue)
            /\ history' = Append(history, u)
            /\ chat_ctx' = Append(chat_ctx, u)
            /\ fate' = [fate EXCEPT ![u] = "turn"]
            /\ surfaced' = Append(surfaced, u)
    /\ op' = "turn"
    /\ UNCHANGED <<tvars, lvars, xvars>>
    /\ UNCHANGED <<assistant, agent_state, replies, inflight, received, via,
                   arrivedIn>>

\* JoninAssistant.ask_computer_agent: execute_task puts the HTTP result (or
\* the failure text) on task_queue.
execute_task ==
    /\ assistant = "jonin"
    /\ received < MaxUpdates
    /\ LET u == received + 1 IN
        /\ received' = u
        /\ via' = [via EXCEPT ![u] = "http"]
        /\ arrivedIn' = [arrivedIn EXCEPT ![u] = Busyness(agent_state)]
        /\ task_queue' = put_nowait(task_queue, u)
        /\ fate' = [fate EXCEPT ![u] = "queued"]
    /\ op' = "other"
    /\ UNCHANGED <<tvars, lvars, xvars>>
    /\ UNCHANGED <<assistant, agent_state, history, chat_ctx, replies,
                   inflight, surfaced>>

\* The tunnel object before any connect(): TunnelInterface.__init__ and
\* RemoteTunnel.__init__ / OpenCodeClient.__init__
TunnelNew(a) ==
    /\ adapter = a
    /\ websocket = <<>>
    /\ is_connected = FALSE
    /\ sock = [k \in Conns |-> "unopened"]
    /\ loop = [k \in Conns |-> [pc |-> "none", reading |-> <<>>]]
    /\ connects = 0
    /\ written = [k \in Conns |-> 0]
    /\ pubResult = "none"
    /\ pubWhy = "none"
    /\ lastEvent = "never"
    /\ askResult = "none"

\* An adapter object before connect(): no loop task, no socket, no frames,
\* response_callback / _callback None, current_streaming_content "".
ListenNew ==
    /\ lpc = "none"
    /\ wsock = "unopened"
    /\ rx = <<>>
    /\ calls = <<>>
    /\ buffer = <<>>
    /\ has_callback = FALSE

\* No call of pub() / send_message() yet.
PubNew ==
    /\ envelopes = <<>>
    /\ pubArgs = <<>>
    /\ pubRet = "none"
    /\ in_flight = {}

SockIds == 1..MaxSockets

\* WebSocketManager.__init__, and no inbound connection yet.
ServerNew ==
    /\ mgr = [websocket |-> <<>>, agent |-> <<>>, connection_id |-> <<>>,
              user_id |-> <<>>]
    /\ ep = [c \in SockIds |-> [pc |-> "none", agent |-> <<>>, websocket |-> <<>>]]
    /\ cleanups = [c \in SockIds |-> 0]
    /\ lastSend = <<>>
    /\ sev = <<>>

AgentNames == {"goose", "agno", "claude", "opencode", "nova", "Nova"}

AgentClasses == {"GooseClient", "AgnoClient", "ClaudeClient", "OpenCodeClient",
                 "NovaClient"}

TierNames == {"genin", "chunin", "jonin", "kage"}

\* _ASSISTANT_REGISTRY as the register_assistant decorators leave it.
AssistantRegistry ==
    [t \in TierNames |->
        IF t = "genin" THEN <<"GeninAssistant">>
        ELSE IF t = "chunin" THEN <<"ChuninAssistant">>
        ELSE IF t = "jonin" THEN <<"JoninAssistant">>
        ELSE <<>>]

AllClasses == AgentClasses \cup {"GeninAssistant", "ChuninAssistant", "JoninAssistant"}

\* The class attribute _AGENT_REGISTRY, nothing instantiated, no call yet.
FactoryNew ==
    /\ registry = [n \in AgentNames |->
                      IF n = "goose" THEN <<"GooseClient">>
                      ELSE IF n = "agno" THEN <<"AgnoClient">>
                      ELSE IF n = "claude" THEN <<"ClaudeClient">>
                      ELSE IF n = "opencode" THEN <<"OpenCodeClient">>
                      ELSE <<>>]
    /\ agent_type_env = <<>>
    /\ instances = [k \in AllClasses |-> 0]
    /\ fcall = <<>>

\* The values of TaskStatus.
TaskStatuses == {"running", "completed", "needs_input", "error"}

\* TaskUpdate objects: every field is <<value>>, or <<>> for None.  A dict is
\* written as the text of its literal.
TaskUpdates ==
    [status : {<<st>> : st \in TaskStatuses},
     progress : {<<0>>, <<40>>, <<100>>},
     message : {<<"">>, <<"navigating">>},
     task_id : {<<>>, <<"t-1">>},
     estimated_time_remaining : {<<>>, <<0>>, <<30>>},
     required_input : {<<>>, <<"{}">>, <<"{'field': 'url'}">>},
     error_details : {<<>>, <<"">>, <<"boom">>}]

\* Nothing sent, nothing received.
CodecNew ==
    /\ task_update = [status |-> <<"running">>, progress |-> <<0>>,
                      message |-> <<"">>, task_id |-> <<>>,
                      estimated_time_remaining |-> <<>>,
                      required_input |-> <<>>, error_details |-> <<>>]
    /\ wire = <<>>
    /\ decoded = <<>>

AtlasTasks == {"t-1", "t-2"}

\* AtlasTunnel.__init__, with the ghost fields of the last handled message.
AtlasNew ==
    atlas = [initialized |-> FALSE,
             task_states |-> [t \in AtlasTasks |-> <<>>],
             callback |-> FALSE,
             pc |-> "none",
             syncs |-> 0,
             shown |-> <<>>,
             invoked |-> <<>>]

\* Before the request: no queue, no background task, nothing sent.
StreamNew ==
    stream = [queue |-> <<>>, task |-> "none", gen |-> "none", sent |-> <<>>,
              emitted |-> 0]

DeskSessions == {"sess-a", "sess-b"}

MaxClients == 2

ClientIds == 1..MaxClients

\* session_manager = SessionManager(): no session; the ghost fields count
\* the ClaudeSDKClient objects made and the queries each was sent, and hold
\* the last HTTP answer.
SessionManagerNew ==
    session_manager = [sessions |-> [sid \in DeskSessions |-> <<>>],
                       made |-> 0,
                       asked |-> [k \in ClientIds |-> 0],
                       last |-> <<>>]

ONew == AtlasNew /\ StreamNew /\ SessionManagerNew

XNew == PubNew /\ ServerNew /\ FactoryNew /\ CodecNew /\ ONew

Init ==
    /\ \E a \in Assistants : DNew(a)
    /\ TunnelNew("RemoteTunnel")
    /\ ListenNew
    /\ XNew
    /\ op = "other"

Next ==
    \/ \E s \in AgentStates : EngineSetState(s)
    \/ agent_response_handler
    \/ \E interrupted \in BOOLEAN : generate_reply_returns(interrupted)
    \/ generate_reply_raises
    \/ on_user_turn_completed
    \/ execute_task

Spec == Init /\ [][Next]_vars

\* The same program with user turns that keep completing.
FairSpec == Init /\ [][Next]_vars /\ WF_vars(on_user_turn_completed)

\* ------------------------------------------------------------------------
\* The tunnel connection: RemoteTunnel and OpenCodeClient

\* remote_tunnel.py:77, :98 and opencode_client.py:48
NoSocket(ws, conn) == ws = <<>>

NotConnected(ws, conn) == ws = <<>> \/ ~conn

\* The except branch of pub()/publish() leaves _is_connected alone
\* (remote_tunnel.py:92-94, :105-107); send_message() of OpenCodeClient
\* and of AgnoClient clear it (opencode_client.py:60-63, agno_client.py:60-63).
ConnectedAfterWriteFailure(a, conn) == IF a = "RemoteTunnel" THEN conn ELSE FALSE

\* A failed websockets.connect: RemoteTunnel.connect clears _is_connected and
\* re-raises (remote_tunnel.py:58-61); OpenCodeClient.connect returns False
\* (opencode_client.py:40-42).
ConnectedAfterFailedConnect(a, conn) == IF a = "RemoteTunnel" THEN FALSE ELSE conn

\* The finally block of a receive loop (remote_tunnel.py:123-124,
\* opencode_client.py:81-87): _is_connected is cleared; OpenCodeClient also
\* closes whatever self.websocket is at that moment.
LoopExit(l) ==
    /\ loop' = [loop EXCEPT ![l] = [pc |-> "done", reading |-> <<>>]]
    /\ is_connected' = FALSE
    /\ sock' = IF adapter = "OpenCodeClient" /\ websocket # <<>>
               THEN [sock EXCEPT ![Head(websocket)] = "closed"]
               ELSE sock
    /\ lastEvent' = "loop_ended"

\* connect(): websockets.connect succeeds, the flag is set and the receive
\* loop task is created.
connect_succeeds ==
    /\ connects < MaxConnects
    /\ LET k == connects + 1 IN
        /\ connects' = k
        /\ sock' = [sock EXCEPT ![k] = "open"]
        /\ websocket' = <<k>>
        /\ loop' = [loop EXCEPT ![k] = [pc |-> "top", reading |-> <<>>]]
    /\ is_connected' = TRUE
    /\ lastEvent' = "connected"
    /\ op' = "other"
    /\ UNCHANGED <<adapter, written, pubResult, pubWhy, askResult>>
    /\ UNCHANGED <<dvars, lvars, xvars>>

\* connect(): websockets.connect raises.
connect_fails ==
    /\ connects < MaxConnects
    /\ connects' = connects + 1
    /\ is_connected' = ConnectedAfterFailedConnect(adapter, is_connected)
    /\ lastEvent' = "connect_failed"
    /\ op' = "other"
    /\ UNCHANGED <<adapter, websocket, sock, loop, written, pubResult, pubWhy, askResult>>
    /\ UNCHANGED <<dvars, lvars, xvars>>

\* AgnoClient.disconnect ends with  self.is_connected = False  (agno_client.py:90):
\* is_connected is a property without a setter (agent_interface.py:68-71,
\* tunnel_interface.py:44-47), so
\* the assignment raises AttributeError and _is_connected keeps its value.
DisconnectRaises(a) == a = "AgnoClient"

\* disconnect(): RemoteTunnel closes the socket and forgets it
\* (remote_tunnel.py:166-175); OpenCodeClient closes it and keeps the
\* reference (opencode_client.py:89-97); AgnoClient closes it and raises.
disconnect ==
    /\ is_connected' = IF DisconnectRaises(adapter) THEN is_connected ELSE FALSE
    /\ sock' = IF websocket # <<>>
               THEN [sock EXCEPT ![Head(websocket)] = "closed"]
               ELSE sock
    /\ websocket' = IF adapter = "RemoteTunnel" THEN <<>> ELSE websocket
    /\ lastEvent' = IF DisconnectRaises(adapter) THEN "disconnect_raised"
                    ELSE "disconnected"
    /\ op' = "other"
    /\ UNCHANGED <<adapter, loop, connects, written, pubResult, pubWhy, askResult>>
    /\ UNCHANGED <<dvars, lvars, xvars>>

\* The relay closes socket k, or the socket is forcibly closed.
peer_closes(k) ==
    /\ sock[k] = "open"
    /\ sock' = [sock EXCEPT ![k] = "closed"]
    /\ op' = "other"
    /\ UNCHANGED <<adapter, websocket, is_connected, loop, connects, written,
                   pubResult, pubWhy, lastEvent,
                   askResult>>
    /\ UNCHANGED <<dvars, lvars, xvars>>

AskReplyAlwaysStarted(result) == "started"

\* ask_computer_agent -> run_task -> tunnel.pub (genin.py:136-179): the text
\* returned to the conversation for pub()'s result.
AskReply(result) == IF result = "True" THEN "started" ELSE "lost"

\* pub(), publish() (RemoteTunnel) and send_message() (OpenCodeClient,
\* AgnoClient), as called by run_task: the guard, then websocket.send inside
\* try/except.
pub ==
    /\ IF NotConnected(websocket, is_connected)
       THEN /\ pubResult' = "False"
            /\ pubWhy' = "not_connected"
            /\ UNCHANGED <<written, is_connected>>
       ELSE IF sock[Head(websocket)] = "open"
            THEN /\ written[Head(websocket)] < MaxPubs
                 /\ written' = [written EXCEPT ![Head(websocket)] = @ + 1]
                 /\ pubResult' = "True"
                 /\ pubWhy' = "sent"
                 /\ UNCHANGED is_connected
            ELSE /\ pubResult' = "False"
                 /\ pubWhy' = "write_failed"
                 /\ is_connected' = ConnectedAfterWriteFailure(adapter, is_connected)
                 /\ UNCHANGED written
    /\ askResult' = AskReply(pubResult')
    /\ op' = "pub"
    /\ UNCHANGED <<adapter, websocket, sock, loop, connects, lastEvent>>
    /\ UNCHANGED <<dvars, lvars, xvars>>

\* RemoteTunnel._listen, the loop condition and the call of recv() on
\* self.websocket as it is now.  recv() raises when another coroutine is
\* already waiting in recv() on that socket.
listen_top(l) ==
    /\ adapter = "RemoteTunnel"
    /\ loop[l].pc = "top"
    /\ IF /\ is_connected
          /\ websocket # <<>>
          /\ ~ \E m \in Conns \ {l} :
                 loop[m].pc = "recv" /\ loop[m].reading = websocket
       THEN /\ loop' = [loop EXCEPT ![l] = [pc |-> "recv", reading |-> websocket]]
            /\ UNCHANGED <<is_connected, sock, lastEvent>>
       ELSE LoopExit(l)
    /\ op' = "other"
    /\ UNCHANGED <<adapter, websocket, connects, written, pubResult, pubWhy, askResult>>
    /\ UNCHANGED <<dvars, lvars, xvars>>

\* OpenCodeClient._receive_messages / AgnoClient._receive_messages starts:
\* async for binds self.websocket.
receive_start(l) ==
    /\ adapter # "RemoteTunnel"
    /\ loop[l].pc = "top"
    /\ websocket # <<>>
    /\ loop' = [loop EXCEPT ![l] = [pc |-> "recv", reading |-> websocket]]
    /\ op' = "other"
    /\ UNCHANGED <<adapter, websocket, is_connected, sock, connects, written,
                   pubResult, pubWhy, lastEvent,
                   askResult>>
    /\ UNCHANGED <<dvars, lvars, xvars>>

\* A frame arrives: _handle_message (or the loop body) runs and may await
\* the subscriber callback.
listen_frame(l) ==
    /\ loop[l].pc = "recv"
    /\ sock[Head(loop[l].reading)] = "open"
    /\ loop' = [loop EXCEPT ![l].pc = "callback"]
    /\ op' = "other"
    /\ UNCHANGED <<adapter, websocket, is_connected, sock, connects, written,
                   pubResult, pubWhy, lastEvent,
                   askResult>>
    /\ UNCHANGED <<dvars, lvars, xvars>>

\* The frame has been handled: RemoteTunnel goes back to the loop condition,
\* OpenCodeClient's async for reads the same socket again.
listen_handled(l) ==
    /\ loop[l].pc = "callback"
    /\ loop' = IF adapter = "RemoteTunnel"
               THEN [loop EXCEPT ![l] = [pc |-> "top", reading |-> <<>>]]
               ELSE [loop EXCEPT ![l].pc = "recv"]
    /\ op' = "other"
    /\ UNCHANGED <<adapter, websocket, is_connected, sock, connects, written,
                   pubResult, pubWhy, lastEvent,
                   askResult>>
    /\ UNCHANGED <<dvars, lvars, xvars>>

\* recv() finds the socket closed: the loop ends through its finally block.
listen_closed(l) ==
    /\ loop[l].pc = "recv"
    /\ sock[Head(loop[l].reading)] = "closed"
    /\ LoopExit(l)
    /\ op' = "other"
    /\ UNCHANGED <<adapter, websocket, connects, written, pubResult, pubWhy, askResult>>
    /\ UNCHANGED <<dvars, lvars, xvars>>

TunnelInit ==
    /\ DNew("genin")
    /\ \E a \in Adapters : TunnelNew(a)
    /\ ListenNew
    /\ XNew
    /\ op = "other"

TunnelNext ==
    \/ connect_succeeds
    \/ connect_fails
    \/ disconnect
    \/ \E k \in Conns : peer_closes(k)
    \/ pub
    \/ \E l \in Conns : listen_top(l)
    \/ \E l \in Conns : receive_start(l)
    \/ \E l \in Conns : listen_frame(l)
    \/ \E l \in Conns : listen_handled(l)
    \/ \E l \in Conns : listen_closed(l)

TunnelSpec == TunnelInit /\ [][TunnelNext]_vars

\* ---------------------------------------------------------------------
\* One connection's receive loop, frame by frame: RemoteTunnel._listen and
\* _handle_message, OpenCodeClient._receive_messages,
\* GooseClient._listen_for_responses.

ListenAdapters == {"RemoteTunnel", "OpenCodeClient", "GooseClient"}

\* The frames a peer can send, by what the loops distinguish: text that is
\* not JSON, and JSON envelopes by their "type" (task-update split by status).
\* Envelopes that carry text carry non-empty text.
FrameKinds == {"not_json", "response", "task_response", "task_update_running",
               "task_update_final", "tasks", "complete", "error", "cancelled",
               "tool_response"}

TasksIsResponse(f) == f \in {"task_response", "task_update_final", "response", "tasks"}

\* RemoteTunnel._handle_message: the frames for which content is set.
\* task-response: result or error; task-update: only for the statuses
\* needs_input, completed, error; response: content; tasks: return.
HasContent(f) == f \in {"task_response", "task_update_final", "response"}

ParseErrorFatal(a) == "die"

\* What json.loads raising does to the loop: caught next to the call
\* (remote_tunnel.py:161, opencode_client.py:75) or, in GooseClient, only by
\* the handler around the whole loop (goose_client.py:78, 129-131).
ParseError(a) == IF a = "GooseClient" THEN "die" ELSE "skip"

\* What the loop body does with frame f: "callback" (awaits the subscriber
\* callback), "skip" (goes on to the next frame), "die" (an exception leaves
\* the loop), "break" (GooseClient's own exit test).  GooseClient awaits
\* self.response_callback for a tool_response frame without testing it
\* (goose_client.py:112-114): with no callback registered that call raises.
Outcome(a, f, cb, buf, connected) ==
    IF a = "RemoteTunnel"
    THEN IF f = "not_json" THEN ParseError(a)
         ELSE IF HasContent(f) /\ cb THEN "callback" ELSE "skip"
    ELSE IF a = "OpenCodeClient"
    THEN IF f = "not_json" THEN ParseError(a)
         ELSE IF f = "response" /\ cb THEN "callback" ELSE "skip"
    ELSE IF ~connected THEN "break"
         ELSE IF f = "not_json" THEN ParseError(a)
         ELSE IF f = "complete" /\ buf # <<>> /\ cb THEN "callback"
         ELSE IF f = "error" /\ cb THEN "callback"
         ELSE IF f = "tool_response" THEN IF cb THEN "callback" ELSE "die"
         ELSE "skip"

\* GooseClient.current_streaming_content after the synchronous part of the
\* loop body: response appends; complete and error reset (after the awaited
\* callback, when there is one); cancelled resets.
BufferAfter(a, f, buf, n, out) ==
    IF a # "GooseClient" \/ out \in {"die", "break"} THEN buf
    ELSE IF f = "response" THEN Append(buf, n)
    ELSE IF f \in {"complete", "error"} /\ out = "skip" THEN <<>>
    ELSE IF f = "cancelled" THEN <<>>
    ELSE buf

\* The loop ends.  RemoteTunnel and OpenCodeClient clear the flag in a
\* finally block (OpenCodeClient also closes the socket); GooseClient clears
\* it only in its two except handlers, which a clean close (the async for
\* ends) and its own break do not reach.
ListenExit(why) ==
    /\ lpc' = "done"
    /\ is_connected' = IF adapter = "GooseClient" /\ why \in {"clean", "break"}
                       THEN is_connected
                       ELSE FALSE
    /\ wsock' = IF adapter = "OpenCodeClient" /\ wsock = "open"
               THEN "closed_ok"
               ELSE wsock

tfrozen == <<websocket, sock, loop, connects, written, pubResult, pubWhy,
             lastEvent, askResult>>

\* connect() succeeds: the flag is set and the receive loop task starts.
listen_connect ==
    /\ lpc = "none"
    /\ lpc' = "recv"
    /\ wsock' = "open"
    /\ is_connected' = TRUE
    /\ UNCHANGED <<rx, calls, buffer, has_callback>>
    /\ UNCHANGED <<adapter, tfrozen, dvars, op, xvars>>

\* sub() / set_callback(): a subscriber callback is registered.
sub ==
    /\ ~has_callback
    /\ has_callback' = TRUE
    /\ UNCHANGED <<lpc, wsock, rx, calls, buffer, is_connected>>
    /\ UNCHANGED <<adapter, tfrozen, dvars, op, xvars>>

\* recv() / the async for returns frame f and the loop body runs up to its
\* first await of the callback, or to its end.
handle_message(f) ==
    /\ lpc = "recv"
    /\ wsock = "open"
    /\ Len(rx) < MaxFrames
    /\ rx' = Append(rx, f)
    /\ LET n == Len(rx) + 1
           out == Outcome(adapter, f, has_callback, buffer, is_connected)
       IN /\ buffer' = BufferAfter(adapter, f, buffer, n, out)
          /\ calls' = IF out = "callback" THEN Append(calls, n) ELSE calls
          /\ IF out = "callback"
             THEN lpc' = "callback" /\ UNCHANGED <<is_connected, wsock>>
             ELSE IF out = "skip"
             THEN lpc' = "recv" /\ UNCHANGED <<is_connected, wsock>>
             ELSE ListenExit(out)
    /\ UNCHANGED has_callback
    /\ UNCHANGED <<adapter, tfrozen, dvars, op, xvars>>

\* The awaited callback returns.  RemoteTunnel tests its loop condition
\* again; GooseClient resets its buffer after complete / error.
callback_returns ==
    /\ lpc = "callback"
    /\ buffer' = IF adapter = "GooseClient" /\ rx[Len(rx)] \in {"complete", "error"}
                  THEN <<>> ELSE buffer
    /\ IF adapter = "RemoteTunnel" /\ ~is_connected
       THEN ListenExit("condition")
       ELSE lpc' = "recv" /\ UNCHANGED <<is_connected, wsock>>
    /\ UNCHANGED <<rx, calls, has_callback>>
    /\ UNCHANGED <<adapter, tfrozen, dvars, op, xvars>>

\* The awaited callback raises.  RemoteTunnel._handle_message catches it
\* (remote_tunnel.py:163); in the other two it leaves the loop.
callback_raises ==
    /\ lpc = "callback"
    /\ IF adapter = "RemoteTunnel"
       THEN IF is_connected
            THEN lpc' = "recv" /\ UNCHANGED <<is_connected, wsock>>
            ELSE ListenExit("condition")
       ELSE ListenExit("die")
    /\ UNCHANGED <<rx, calls, buffer, has_callback>>
    /\ UNCHANGED <<adapter, tfrozen, dvars, op, xvars>>

\* The peer closes the connection, with a normal close code or abnormally.
relay_closes(how) ==
    /\ wsock = "open"
    /\ wsock' = how
    /\ UNCHANGED <<lpc, rx, calls, buffer, has_callback, is_connected>>
    /\ UNCHANGED <<adapter, tfrozen, dvars, op, xvars>>

\* recv() raises ConnectionClosed (RemoteTunnel); the async for ends
\* normally after a clean close and raises ConnectionClosed after an
\* abnormal one (OpenCodeClient, GooseClient).
recv_closed ==
    /\ lpc = "recv"
    /\ wsock \in {"closed_ok", "closed_err"}
    /\ ListenExit(IF wsock = "closed_ok" THEN "clean" ELSE "abnormal")
    /\ UNCHANGED <<rx, calls, buffer, has_callback>>
    /\ UNCHANGED <<adapter, tfrozen, dvars, op, xvars>>

\* disconnect(): the flag is cleared and the socket closed with a normal
\* close code.
listen_disconnect ==
    /\ is_connected
    /\ is_connected' = FALSE
    /\ wsock' = IF wsock = "open" THEN "closed_ok" ELSE wsock
    /\ UNCHANGED <<lpc, rx, calls, buffer, has_callback>>
    /\ UNCHANGED <<adapter, tfrozen, dvars, op, xvars>>

ListenInit ==
    /\ DNew("genin")
    /\ \E a \in ListenAdapters : TunnelNew(a)
    /\ ListenNew
    /\ XNew
    /\ op = "other"

ListenNext ==
    \/ listen_connect
    \/ sub
    \/ \E f \in FrameKinds : handle_message(f)
    \/ callback_returns
    \/ callback_raises
    \/ \E how \in {"closed_ok", "closed_err"} : relay_closes(how)
    \/ recv_closed
    \/ listen_disconnect

ListenSpec == ListenInit /\ [][ListenNext]_vars

\* ------------------------------------------------------------------------
\* The task envelope: RemoteTunnel.pub and OpenCodeClient.send_message, as
\* called by run_task with a session_id, or by another caller without one.

PubAdapters == {"RemoteTunnel", "OpenCodeClient"}

Tasks == {"open the browser", "close the tab"}

\* The session_id argument: not passed / None, the empty string, an id.
SessionIds == {<<>>, <<"">>, <<"s-1">>}

\* Python truthiness of an optional string.
Truthy(v) == v # <<>> /\ v # <<"">>

\* The payload dict handed to json.dumps; a key the code does not set is <<>>.
\* RemoteTunnel.pub takes session_id in **kwargs and does not read it;
\* OpenCodeClient.send_message adds it when it is truthy.
Envelope(a, m, sid) ==
    IF a = "RemoteTunnel"
    THEN [type |-> "tasks", content |-> m, agent |-> <<"opencode">>,
          source |-> <<"voice-agent">>, session_id |-> <<>>]
    ELSE [type |-> "message", content |-> m, agent |-> <<>>, source |-> <<>>,
          session_id |-> IF Truthy(sid) THEN sid ELSE <<>>]

pfrozen == <<adapter, websocket, sock, loop, connects, written, pubResult,
             pubWhy, lastEvent, askResult, lpc, rx, calls, buffer,
             has_callback>>

\* connect() succeeds.
pub_connect ==
    /\ wsock = "unopened"
    /\ wsock' = "open"
    /\ is_connected' = TRUE
    /\ op' = "other"
    /\ UNCHANGED <<pvars, svars, fvars, cvars, ovars, pfrozen, dvars>>

\* The peer closes the connection; no receive loop has observed it yet.
pub_peer_closes ==
    /\ wsock = "open"
    /\ wsock' = "closed_err"
    /\ op' = "other"
    /\ UNCHANGED <<is_connected, pvars, svars, fvars, cvars, ovars, pfrozen, dvars>>

\* pub(message, session_id=...) / send_message(message, session_id=...):
\* the guard, the payload, websocket.send inside try/except.
publish_task(m, sid) ==
    /\ pubArgs' = <<[message |-> m, session_id |-> sid]>>
    /\ IF wsock = "unopened" \/ ~is_connected
       THEN /\ pubRet' = "False"
            /\ UNCHANGED <<envelopes, is_connected, in_flight>>
       ELSE IF wsock = "open"
            THEN /\ Len(envelopes) < MaxPubs
                 /\ envelopes' = Append(envelopes, Envelope(adapter, m, sid))
                 /\ in_flight' = in_flight \cup {m}
                 /\ pubRet' = "True"
                 /\ UNCHANGED is_connected
            ELSE /\ pubRet' = "False"
                 /\ is_connected' = ConnectedAfterWriteFailure(adapter, is_connected)
                 /\ UNCHANGED <<envelopes, in_flight>>
    /\ op' = "pub"
    /\ UNCHANGED <<wsock, svars, fvars, cvars, ovars, pfrozen, dvars>>

\* A completed, needs_input or error update for task m arrives: the task is
\* no longer in flight.  Neither run_task nor the adapters keep a record of
\* the tasks they published.
task_finished(m) ==
    /\ m \in in_flight
    /\ in_flight' = in_flight \ {m}
    /\ op' = "recv"
    /\ UNCHANGED <<envelopes, pubArgs, pubRet, wsock, is_connected>>
    /\ UNCHANGED <<svars, fvars, cvars, ovars, pfrozen, dvars>>

PubInit ==
    /\ DNew("genin")
    /\ \E a \in PubAdapters : TunnelNew(a)
    /\ ListenNew
    /\ XNew
    /\ op = "other"

PubNext ==
    \/ pub_connect
    \/ pub_peer_closes
    \/ \E m \in Tasks, sid \in SessionIds : publish_task(m, sid)
    \/ \E m \in Tasks : task_finished(m)

PubSpec == PubInit /\ [][PubNext]_vars

\* ------------------------------------------------------------------------
\* The executor side: the module-level WebSocketManager of agno-agent and the
\* websocket_endpoint coroutines, one per inbound connection.  The executor
\* constructed in connect() for connection c is named c.

MessageKinds == {"task", "no_session_id", "other"}

SockOpen(c) == ep[c].pc \in {"initializing", "receive", "task"}

\* connection_count(): 1 if a socket is held, else 0.
connection_count(m) == IF m.websocket # <<>> THEN 1 ELSE 0

NoCleanup(cl, agent) == cl

\* disconnect(): if self.agent: asyncio.create_task(self.agent.cleanup()).
ScheduleCleanup(cl, agent) ==
    IF agent # <<>> THEN [cl EXCEPT ![Head(agent)] = @ + 1] ELSE cl

sfrozen == <<dvars, tvars, lvars, pvars, fvars, cvars, ovars, op>>

\* connect() up to  await agent.initialize() : accept, then the three
\* manager fields are set.
connect_accept(c) ==
    /\ ep[c].pc = "none"
    /\ mgr' = [mgr EXCEPT !.websocket = <<c>>, !.user_id = <<"anonymous">>,
                          !.connection_id = <<c>>]
    /\ ep' = [ep EXCEPT ![c].pc = "initializing"]
    /\ sev' = <<[kind |-> "accept", conn |-> c]>>
    /\ UNCHANGED <<cleanups, lastSend, sfrozen>>

\* connect() after initialize() returned: the executor is bound and the
\* connected envelope is written to the socket passed to connect().
connect_initialized(c) ==
    /\ ep[c].pc = "initializing"
    /\ mgr' = [mgr EXCEPT !.agent = <<c>>]
    /\ ep' = [ep EXCEPT ![c].pc = "receive"]
    /\ lastSend' = <<[to |-> c, kind |-> "connected", by |-> <<>>, re |-> c]>>
    /\ sev' = <<[kind |-> "connected", conn |-> c]>>
    /\ UNCHANGED <<cleanups, sfrozen>>

\* connect() when ComputerAgent(...) or initialize() raises: the socket is
\* closed with code 1011 and the endpoint ends without calling disconnect().
connect_initialize_fails(c) ==
    /\ ep[c].pc = "initializing"
    /\ ep' = [ep EXCEPT ![c].pc = "closed"]
    /\ sev' = <<[kind |-> "connect_failed", conn |-> c]>>
    /\ UNCHANGED <<mgr, cleanups, lastSend, sfrozen>>

\* websocket_endpoint receives a message on connection c and
\* handle_message runs up to  await agent.run_task_stream(...)  or to its end.
\* A send_text on a socket that is no longer open raises into the endpoint's
\* except Exception, which answers on its own socket.
handle_inbound(c, k) ==
    /\ ep[c].pc = "receive"
    /\ sev' = <<[kind |-> k, conn |-> c]>>
    /\ IF mgr.agent = <<>> \/ mgr.websocket = <<>> \/ k = "other"
       THEN UNCHANGED <<ep, lastSend>>
       ELSE IF k = "no_session_id"
       THEN /\ lastSend' =
                 IF SockOpen(Head(mgr.websocket))
                 THEN <<[to |-> Head(mgr.websocket), kind |-> "session_id_required",
                         by |-> <<>>, re |-> c]>>
                 ELSE <<[to |-> c, kind |-> "internal_server_error",
                         by |-> <<>>, re |-> c]>>
            /\ UNCHANGED ep
       ELSE /\ ep' = [ep EXCEPT ![c] = [pc |-> "task", agent |-> mgr.agent,
                                        websocket |-> mgr.websocket]]
            /\ UNCHANGED lastSend
    /\ UNCHANGED <<mgr, cleanups, sfrozen>>

\* The executor running connection c's task calls its message sender, the
\* manager's send_message, which writes to self.websocket as it is now.
agent_sends(c) ==
    /\ ep[c].pc = "task"
    /\ mgr.websocket # <<>>
    /\ SockOpen(Head(mgr.websocket))
    /\ lastSend' = <<[to |-> Head(mgr.websocket), kind |-> "task_output",
                      by |-> ep[c].agent, re |-> c]>>
    /\ sev' = <<[kind |-> "send_message", conn |-> c]>>
    /\ UNCHANGED <<mgr, ep, cleanups, sfrozen>>

\* run_task_stream returns.
task_returns(c) ==
    /\ ep[c].pc = "task"
    /\ ep' = [ep EXCEPT ![c] = [pc |-> "receive", agent |-> <<>>, websocket |-> <<>>]]
    /\ sev' = <<[kind |-> "task_returned", conn |-> c]>>
    /\ UNCHANGED <<mgr, cleanups, lastSend, sfrozen>>

\* run_task_stream raises: the error envelope goes to the socket captured at
\* the start of handle_message.
task_raises(c) ==
    /\ ep[c].pc = "task"
    /\ lastSend' = IF SockOpen(Head(ep[c].websocket))
                   THEN <<[to |-> Head(ep[c].websocket), kind |-> "task_error",
                           by |-> <<>>, re |-> c]>>
                   ELSE lastSend
    /\ ep' = [ep EXCEPT ![c] = [pc |-> "receive", agent |-> <<>>, websocket |-> <<>>]]
    /\ sev' = <<[kind |-> "task_raised", conn |-> c]>>
    /\ UNCHANGED <<mgr, cleanups, sfrozen>>

\* receive_text raises WebSocketDisconnect: the endpoint's finally calls
\* manager.disconnect(connection_id, user_id).
client_disconnects(c) ==
    /\ ep[c].pc = "receive"
    /\ cleanups' = ScheduleCleanup(cleanups, mgr.agent)
    /\ mgr' = [websocket |-> <<>>, agent |-> <<>>, connection_id |-> <<>>,
               user_id |-> <<>>]
    /\ ep' = [ep EXCEPT ![c].pc = "closed"]
    /\ sev' = <<[kind |-> "disconnect", conn |-> c]>>
    /\ UNCHANGED <<lastSend, sfrozen>>

ServerInit ==
    /\ DNew("genin")
    /\ TunnelNew("AgnoClient")
    /\ ListenNew
    /\ XNew
    /\ op = "other"

ServerNext ==
    \/ \E c \in SockIds : connect_accept(c)
    \/ \E c \in SockIds : connect_initialized(c)
    \/ \E c \in SockIds : connect_initialize_fails(c)
    \/ \E c \in SockIds, k \in MessageKinds : handle_inbound(c, k)
    \/ \E c \in SockIds : agent_sends(c)
    \/ \E c \in SockIds : task_returns(c)
    \/ \E c \in SockIds : task_raises(c)
    \/ \E c \in SockIds : client_disconnects(c)

ServerSpec == ServerInit /\ [][ServerNext]_vars

\* ------------------------------------------------------------------------
\* The registries: AgentFactory (agent_factory.py) and the assistant tier
\* registry (assistants/registry.py, container.py).

\* str.lower() on the names of the model.
Lower(n) == IF n = "Nova" THEN "nova" ELSE n

Keys(reg) == {n \in DOMAIN reg : reg[n] # <<>>}

TotalCreated(i) ==
    i["GooseClient"] + i["AgnoClient"] + i["ClaudeClient"] + i["OpenCodeClient"]
    + i["NovaClient"] + i["GeninAssistant"] + i["ChuninAssistant"]
    + i["JoninAssistant"]

\* create_agent: agent_type = agent_type.lower()
Normalize(n) == Lower(n)

\* cls._AGENT_REGISTRY.get(agent_type) / _ASSISTANT_REGISTRY[tier]
Lookup(reg, n) == IF n \in DOMAIN reg THEN reg[n] ELSE <<>>

ffrozen == <<dvars, tvars, lvars, pvars, svars, cvars, ovars, op>>

\* The process environment sets AGENT_TYPE.
setenv(n) ==
    /\ agent_type_env = <<>>
    /\ fcall = <<>>
    /\ agent_type_env' = <<n>>
    /\ UNCHANGED <<registry, instances, fcall, ffrozen>>

\* AgentFactory.create_agent(agent_type): arg is <<>> for None, else <<name>>.
create_agent(arg) ==
    /\ TotalCreated(instances) < MaxCreates
    /\ LET given == IF arg # <<>> THEN Head(arg)
                    ELSE IF agent_type_env # <<>> THEN Head(agent_type_env)
                    ELSE "agno"
           agent_type == Normalize(given)
           agent_class == Lookup(registry, agent_type)
       IN IF agent_class = <<>>
          THEN /\ fcall' = <<[fn |-> "create_agent", arg |-> arg, name |-> given,
                              raised |-> TRUE, result |-> <<>>,
                              listed |-> Keys(registry)]>>
               /\ UNCHANGED instances
          ELSE /\ fcall' = <<[fn |-> "create_agent", arg |-> arg, name |-> given,
                              raised |-> FALSE, result |-> agent_class,
                              listed |-> {}]>>
               /\ instances' = [instances EXCEPT ![Head(agent_class)] = @ + 1]
    /\ UNCHANGED <<registry, agent_type_env, ffrozen>>

\* AgentFactory.register_agent(name, agent_class)
register_agent(n, k) ==
    /\ registry' = [registry EXCEPT ![n] = <<k>>]
    /\ registry' # registry
    /\ fcall' = <<[fn |-> "register_agent", arg |-> <<n>>, name |-> n,
                   raised |-> FALSE, result |-> <<k>>, listed |-> Keys(registry')]>>
    /\ UNCHANGED <<agent_type_env, instances, ffrozen>>

\* create_assistant(tier, ...): get_assistant_class(tier), then the class is
\* instantiated.
create_assistant(t) ==
    /\ TotalCreated(instances) < MaxCreates
    /\ LET assistant_class == Lookup(AssistantRegistry, t)
       IN IF assistant_class = <<>>
          THEN /\ fcall' = <<[fn |-> "create_assistant", arg |-> <<t>>, name |-> t,
                              raised |-> TRUE, result |-> <<>>,
                              listed |-> Keys(AssistantRegistry)]>>
               /\ UNCHANGED instances
          ELSE /\ fcall' = <<[fn |-> "create_assistant", arg |-> <<t>>, name |-> t,
                              raised |-> FALSE, result |-> assistant_class,
                              listed |-> {}]>>
               /\ instances' = [instances EXCEPT ![Head(assistant_class)] = @ + 1]
    /\ UNCHANGED <<registry, agent_type_env, ffrozen>>

RegisterNames == {"nova", "Nova", "goose"}

RegisterClasses == {"NovaClient", "AgnoClient"}

FactoryInit ==
    /\ DNew("genin")
    /\ TunnelNew("AgnoClient")
    /\ ListenNew
    /\ XNew
    /\ op = "other"

FactoryNext ==
    \/ \E n \in {"goose", "Nova"} : setenv(n)
    \/ \E arg \in {<<>>} \cup {<<n>> : n \in AgentNames} : create_agent(arg)
    \/ \E n \in RegisterNames, k \in RegisterClasses : register_agent(n, k)
    \/ \E t \in TierNames : create_assistant(t)

FactorySpec == FactoryInit /\ [][FactoryNext]_vars

\* ------------------------------------------------------------------------
\* The task_update envelope: AgnoClient.send_task_update and the task_update
\* branch of AgnoClient._receive_messages (agno-agent/agno_client.py).

\* Python truthiness of an optional str or dict.
FieldTruthy(v) == v \notin {<<>>, <<"">>, <<"{}">>}

\* json.dumps of one value: None becomes null, anything else keeps its value.
JsonDump(v) == IF v = <<>> THEN [null |-> TRUE, v |-> <<>>]
               ELSE [null |-> FALSE, v |-> v]

\* json.loads of one value.
JsonLoad(j) == IF j.null THEN <<>> ELSE j.v

\* The payload dict of send_task_update as JSON: five keys always, the
\* required_input and error_details keys only when the field is truthy.
EncodeTaskUpdate(tu) ==
    LET always == [k \in {"status", "progress", "message", "task_id",
                          "estimated_time_remaining"} |-> JsonDump(tu[k])]
        withInput == IF FieldTruthy(tu.required_input)
                     THEN always @@ ("required_input" :> JsonDump(tu.required_input))
                     ELSE always
    IN IF FieldTruthy(tu.error_details)
       THEN withInput @@ ("error_details" :> JsonDump(tu.error_details))
       ELSE withInput

\* data.get(key, default) on the loaded dict.
Get(data, key, default) ==
    IF key \in DOMAIN data THEN JsonLoad(data[key]) ELSE default

\* TaskUpdate(status=data.get("status"), progress=data.get("progress", 0), ...)
DecodeTaskUpdate(data) ==
    [status |-> Get(data, "status", <<>>),
     progress |-> Get(data, "progress", <<0>>),
     message |-> Get(data, "message", <<"">>),
     task_id |-> Get(data, "task_id", <<>>),
     estimated_time_remaining |-> Get(data, "estimated_time_remaining", <<>>),
     required_input |-> Get(data, "required_input", <<>>),
     error_details |-> Get(data, "error_details", <<>>)]

cfrozen == <<dvars, tvars, lvars, pvars, svars, fvars, ovars, op>>

\* send_task_update on a connected client: the payload is built and written.
send_task_update ==
    /\ wire = <<>>
    /\ wire' = <<EncodeTaskUpdate(task_update)>>
    /\ UNCHANGED <<task_update, decoded, cfrozen>>

\* _receive_messages reads the envelope; task_update_callback is registered.
receive_task_update ==
    /\ wire # <<>>
    /\ decoded = <<>>
    /\ decoded' = <<DecodeTaskUpdate(Head(wire))>>
    /\ UNCHANGED <<task_update, wire, cfrozen>>

CodecInit ==
    /\ DNew("genin")
    /\ TunnelNew("AgnoClient")
    /\ ListenNew
    /\ PubNew
    /\ ServerNew
    /\ FactoryNew
    /\ ONew
    /\ task_update \in TaskUpdates
    /\ wire = <<>>
    /\ decoded = <<>>
    /\ op = "other"

CodecNext ==
    \/ send_task_update
    \/ receive_task_update

CodecSpec == CodecInit /\ [][CodecNext]_vars

\* ------------------------------------------------------------------------
\* AtlasTunnel: the cf_agent_state syncs and the callback

MaxSyncs == 3

AtlasStates == {"running", "pending-user-feedback"}

\* The tasks dict of one sync: the tasks it shows, in the order it lists
\* them, each with its state.
RECURSIVE Distinct(_)
Distinct(q) ==
    IF q = <<>> THEN TRUE
    ELSE /\ \A i \in 2..Len(q) : q[i].id # Head(q).id
         /\ Distinct(Tail(q))

SyncEntries == [id : AtlasTasks, state : AtlasStates]

Syncs == {q \in {<<>>} \cup {<<e>> : e \in SyncEntries}
                \cup {<<e, f>> : e \in SyncEntries, f \in SyncEntries} :
            Distinct(q)}

\* The test of _handle_state_update for one task of a sync.
Transitioned(prev, curr) == curr = "pending-user-feedback" /\ prev # <<curr>>

\* The first sync: every shown state is recorded, nothing else happens.
RECURSIVE Record(_, _)
Record(ts, q) ==
    IF q = <<>> THEN ts
    ELSE Record([ts EXCEPT ![Head(q).id] = <<Head(q).state>>], Tail(q))

\* The for loop of _handle_state_update over the rest q of a sync: the state
\* is recorded, then the callback is awaited for a transition.  bad is the
\* set of tasks for which the callback raises: the exception leaves the loop.
RECURSIVE Walk(_, _, _, _, _)
Walk(ts, inv, q, cb, bad) ==
    IF q = <<>> THEN [task_states |-> ts, invoked |-> inv, raised |-> FALSE]
    ELSE LET t == Head(q).id
             ts2 == [ts EXCEPT ![t] = <<Head(q).state>>]
         IN IF Transitioned(ts[t], Head(q).state) /\ cb
            THEN IF t \in bad
                 THEN [task_states |-> ts2, invoked |-> Append(inv, t),
                       raised |-> TRUE]
                 ELSE Walk(ts2, Append(inv, t), Tail(q), cb, bad)
            ELSE Walk(ts2, inv, Tail(q), cb, bad)

afrozen == <<dvars, tvars, lvars, pvars, svars, fvars, cvars, session_manager, op>>

\* connect(): the socket is opened and the listen task created.
atlas_connect ==
    /\ atlas.pc = "none"
    /\ atlas' = [atlas EXCEPT !.pc = "listening"]
    /\ UNCHANGED <<afrozen, stream>>

\* on_message(callback).
on_message ==
    /\ ~atlas.callback
    /\ atlas' = [atlas EXCEPT !.callback = TRUE]
    /\ UNCHANGED <<afrozen, stream>>

\* _listen receives a cf_agent_state frame: _handle_message calls
\* _handle_state_update.  An exception of the callback is not caught before
\* _listen's  except Exception , which ends the loop.
handle_state_update(q, bad) ==
    /\ atlas.pc = "listening"
    /\ atlas.syncs < MaxSyncs
    /\ IF ~atlas.initialized
       THEN atlas' = [atlas EXCEPT !.initialized = TRUE,
                                   !.task_states = Record(atlas.task_states, q),
                                   !.syncs = @ + 1,
                                   !.shown = q,
                                   !.invoked = <<>>]
       ELSE LET w == Walk(atlas.task_states, <<>>, q, atlas.callback, bad)
            IN atlas' = [atlas EXCEPT !.task_states = w.task_states,
                                      !.syncs = @ + 1,
                                      !.shown = q,
                                      !.invoked = w.invoked,
                                      !.pc = IF w.raised THEN "done" ELSE @]
    /\ UNCHANGED <<afrozen, stream>>

\* The connection closes: the async for ends or ConnectionClosed is caught.
atlas_closed ==
    /\ atlas.pc = "listening"
    /\ atlas' = [atlas EXCEPT !.pc = "done"]
    /\ UNCHANGED <<afrozen, stream>>

AtlasInit ==
    /\ DNew("genin")
    /\ TunnelNew("RemoteTunnel")
    /\ ListenNew
    /\ XNew
    /\ op = "other"

AtlasNext ==
    \/ atlas_connect
    \/ on_message
    \/ \E q \in Syncs, bad \in SUBSET AtlasTasks : handle_state_update(q, bad)
    \/ atlas_closed

AtlasSpec == AtlasInit /\ [][AtlasNext]_vars

\* ------------------------------------------------------------------------
\* execute_task_stream: the event queue between the workforce and the SSE
\* generator

MaxEvents == 3

LifecycleEvents == {"task_started", "task_completed", "all_tasks_completed"}

\* StreamingCallback._emit puts the event; log_all_tasks_completed then also
\* puts None, the end-of-stream signal ("None" here).
Emit(q, ev) ==
    IF ev = "all_tasks_completed" THEN q \o <<ev, "None">> ELSE Append(q, ev)

\* run_task after process_task_async: the result event (completed, or failed
\* when it raised), then None from the finally block.
PutResult(q) == q \o <<"result", "None">>

stfrozen == <<dvars, tvars, lvars, pvars, svars, fvars, cvars, atlas, session_manager, op>>

\* event_stream() starts: callback, workforce and queue are created and
\* run_task is started in the background.
stream_start ==
    /\ stream.gen = "none"
    /\ stream' = [stream EXCEPT !.gen = "streaming", !.task = "running"]
    /\ UNCHANGED stfrozen

\* create_workforce_with_callback raises: the generator yields an error
\* event and ends; no task was started.
stream_setup_fails ==
    /\ stream.gen = "none"
    /\ stream' = [stream EXCEPT !.gen = "ended", !.sent = Append(@, "error")]
    /\ UNCHANGED stfrozen

\* The workforce calls a lifecycle method of the callback while the task is
\* being processed.
workforce_emits(ev) ==
    /\ stream.task = "running"
    /\ stream.emitted < MaxEvents
    /\ stream' = [stream EXCEPT !.queue = Emit(@, ev), !.emitted = @ + 1]
    /\ UNCHANGED stfrozen

\* process_task_async returns or raises: run_task queues the result event
\* and the end signal.
run_task_ends ==
    /\ stream.task = "running"
    /\ stream' = [stream EXCEPT !.queue = PutResult(@), !.task = "done"]
    /\ UNCHANGED stfrozen

\* The generator takes the next item from the queue: None ends the stream,
\* anything else is yielded as a data event.
stream_next ==
    /\ stream.gen = "streaming"
    /\ stream.queue # <<>>
    /\ IF Head(stream.queue) = "None"
       THEN stream' = [stream EXCEPT !.queue = Tail(@), !.gen = "ended"]
       ELSE stream' = [stream EXCEPT !.queue = Tail(@),
                                     !.sent = Append(@, Head(stream.queue))]
    /\ UNCHANGED stfrozen

\* queue.get() times out on an empty queue: a timeout event is yielded and
\* the stream ends.
stream_timeout ==
    /\ stream.gen = "streaming"
    /\ stream.queue = <<>>
    /\ stream' = [stream EXCEPT !.gen = "ended", !.sent = Append(@, "timeout")]
    /\ UNCHANGED stfrozen

StreamInit ==
    /\ DNew("genin")
    /\ TunnelNew("RemoteTunnel")
    /\ ListenNew
    /\ XNew
    /\ op = "other"

StreamNext ==
    \/ stream_start
    \/ stream_setup_fails
    \/ \E ev \in LifecycleEvents : workforce_emits(ev)
    \/ run_task_ends
    \/ stream_next
    \/ stream_timeout

StreamSpec == StreamInit /\ [][StreamNext]_vars

\* ------------------------------------------------------------------------
\* The desktop agent server: sessions and /query

MaxQueries == 2

\* What the client of an endpoint gets when exc is raised inside its
\*   try: ... except Exception as e: raise HTTPException(status_code=500, ...)
\* HTTPException is an Exception, so one raised inside the try is caught and
\* replaced like any other.
AnswerInsideTry(exc) == "500"

dkfrozen == <<dvars, tvars, lvars, pvars, svars, fvars, cvars, atlas, stream, op>>

\* POST /session/create -> SessionManager.create_session: an existing id
\* returns the client held for it; otherwise a client is constructed and
\* stored.
desk_create_session(sid) ==
    /\ IF session_manager.sessions[sid] # <<>>
       THEN session_manager' =
                [session_manager EXCEPT
                    !.last = <<[op |-> "create", sid |-> sid, status |-> "200",
                                client |-> session_manager.sessions[sid]]>>]
       ELSE /\ session_manager.made < MaxClients
            /\ LET k == session_manager.made + 1 IN
               session_manager' =
                [session_manager EXCEPT
                    !.sessions[sid] = <<k>>,
                    !.made = k,
                    !.last = <<[op |-> "create", sid |-> sid, status |-> "200",
                                client |-> <<k>>]>>]
    /\ UNCHANGED dkfrozen

\* POST /session/close -> SessionManager.close_session.
desk_close_session(sid) ==
    /\ session_manager' =
          [session_manager EXCEPT
              !.sessions[sid] = <<>>,
              !.last = <<[op |-> "close", sid |-> sid, status |-> "200",
                          client |-> session_manager.sessions[sid]]>>]
    /\ UNCHANGED dkfrozen

\* POST /query: get_session, the 404 raised inside the try when there is no
\* client, else client.query(message), which returns or raises.
query(sid, ok) ==
    /\ LET client == session_manager.sessions[sid] IN
       IF client = <<>>
       THEN session_manager' =
                [session_manager EXCEPT
                    !.last = <<[op |-> "query", sid |-> sid,
                                status |-> AnswerInsideTry("404"),
                                client |-> <<>>]>>]
       ELSE /\ session_manager.asked[Head(client)] < MaxQueries
            /\ session_manager' =
                [session_manager EXCEPT
                    !.asked[Head(client)] = @ + 1,
                    !.last = <<[op |-> "query", sid |-> sid,
                                status |-> IF ok THEN "200"
                                           ELSE AnswerInsideTry("client_error"),
                                client |-> client]>>]
    /\ UNCHANGED dkfrozen

DeskInit ==
    /\ DNew("genin")
    /\ TunnelNew("RemoteTunnel")
    /\ ListenNew
    /\ XNew
    /\ op = "other"

DeskNext ==
    \/ \E sid \in DeskSessions : desk_create_session(sid)
    \/ \E sid \in DeskSessions : desk_close_session(sid)
    \/ \E sid \in DeskSessions, ok \in BOOLEAN : query(sid, ok)

DeskSpec == DeskInit /\ [][DeskNext]_vars

\* ------------------------------------------------------------------------
\* Tunnel properties

\* C9: when the socket write fails inside pub()/publish()/send_message(),
\* the call returns False and is_connected reads False right after it, on
\* RemoteTunnel and on OpenCodeClient.
C9_WriteFailureClearsConnected ==
    (op = "pub" /\ pubWhy = "write_failed") =>
        (pubResult = "False" /\ ~is_connected)

\* C10: pub()/publish() on a RemoteTunnel whose last lifecycle event is not a
\* successful connect() (never connected, connect failed, disconnected,
\* receive loop ended) returns False and writes nothing to any socket.
C10_NoPublishUnlessConnected ==
    [][(op' = "pub" /\ adapter = "RemoteTunnel" /\ lastEvent # "connected") =>
         (pubResult' = "False" /\ written' = written)]_vars

C10_Witness ==
    /\ adapter = "RemoteTunnel"
    /\ op = "pub"
    /\ pubResult = "False"
    /\ pubWhy = "not_connected"
    /\ lastEvent = "loop_ended"
    /\ \E k \in Conns : written[k] > 0

\* ------------------------------------------------------------------------
\* Delivery queue properties

\* Update u came through the tunnel handler while the agent was speaking or
\* thinking, in an assistant whose handler has the busy branch.
BusyQueued(u) ==
    /\ u \in Updates
    /\ QueuesWhenBusy(assistant)
    /\ via[u] = "tunnel"
    /\ arrivedIn[u] = "busy"

Increasing(s) == \A i, j \in DOMAIN s : i < j => s[i] < s[j]

\* C1: updates received while the agent is speaking or thinking are surfaced
\* by successive user turns in arrival order: taking the updates already
\* handed to a turn followed by those still queued, each busy-queued update
\* occurs exactly once and the busy-queued ones occur in arrival order.
C1_BusyUpdatesFifoAcrossTurns ==
    LET s == chat_ctx \o task_queue
        busy == SelectSeq(s, BusyQueued)
    IN /\ Increasing(busy)
       /\ \A u \in Updates : BusyQueued(u) => Count(u, s) = 1

C1_Witness ==
    /\ Len(chat_ctx) >= 3
    /\ \A i \in 1..3 : chat_ctx[i] = i /\ BusyQueued(i)

\* C2: in GeninAssistant the updates received by the tunnel handler are
\* surfaced to the user (spoken to the end, or handed to a turn) in the order
\* they were received.
C2_SurfacedInArrivalOrder ==
    assistant = "genin" => Increasing(surfaced)

\* C3: an update delivered immediately whose speech handle reports
\* interrupted is on task_queue exactly once (until a turn takes it), and an
\* update whose speech completed uninterrupted is not on task_queue.
C3_InterruptedRequeuedOnce ==
    \A u \in Updates :
        /\ fate[u] = "interrupted" => Count(u, task_queue) = 1
        /\ fate[u] = "spoken" => Count(u, task_queue) = 0
        /\ Count(u, task_queue) <= 1

C3_Witness ==
    \E u, v \in Updates :
        /\ fate[u] = "interrupted" /\ arrivedIn[u] = "idle"
        /\ Count(u, task_queue) = 1
        /\ fate[v] = "spoken"

\* C4: a user turn removes the head of task_queue, when there is one, adds
\* it to the turn's context and leaves the other queued updates in order;
\* with an empty queue it changes neither queue, history nor context.
C4_TurnTakesAtMostOne ==
    [][op' = "turn" =>
         IF task_queue = <<>>
         THEN UNCHANGED <<task_queue, history, chat_ctx>>
         ELSE /\ task_queue = <<Head(task_queue)>> \o task_queue'
              /\ chat_ctx' = Append(chat_ctx, Head(task_queue))]_vars

C4_Witness ==
    /\ op = "turn"
    /\ Len(chat_ctx) = 1
    /\ Len(task_queue) >= 2

\* C5: an update received while the agent is speaking or thinking is only
\* appended to task_queue: no reply is generated and neither the history nor
\* the context changes at that moment.
C5_BusyReceiptOnlyEnqueues ==
    [][(op' = "recv" /\ QueuesWhenBusy(assistant) /\ IsBusy(agent_state)) =>
         /\ task_queue' = Append(task_queue, received')
         /\ UNCHANGED <<replies, history, chat_ctx>>]_vars

\* C6: on every path an update that arrives while the agent is idle is
\* spoken immediately (generate_reply is called with it) instead of waiting
\* in task_queue.
C6_IdleArrivalSpokenImmediately ==
    \A u \in Updates :
        (via[u] # "none" /\ arrivedIn[u] = "idle") =>
            /\ u \in Range(replies)
            /\ (u \in Range(task_queue) => fate[u] = "interrupted")

\* C7: while user turns keep completing, every update on task_queue is
\* eventually handed to a turn.
C7_QueuedEventuallySurfaced ==
    \A u \in Updates : (u \in Range(task_queue)) ~> (u \in Range(chat_ctx))

C7_Witness ==
    \E u \in Updates :
        /\ fate[u] = "turn"
        /\ chat_ctx[Len(chat_ctx)] = u
        /\ Len(chat_ctx) >= 2
        /\ task_queue = <<>>

\* C8: every update received by the tunnel handler is in exactly one place:
\* in the in-flight immediate reply, once on task_queue, or surfaced.
C8_UpdateInExactlyOnePlace ==
    \A u \in Updates :
        via[u] = "tunnel" =>
            Count(u, inflight) + Count(u, task_queue)
                + Count(u, surfaced) = 1

\* C11: once a RemoteTunnel receive loop has ended (the relay closed the
\* connection and recv() observed it) and connect() has not succeeded since,
\* every ask_computer_agent call writes nothing to any socket and returns the
\* 'connection to computer is lost' text, and is_connected never becomes True
\* again by anything but a successful connect().
C11_LostUntilExplicitConnect ==
    [][(adapter = "RemoteTunnel" /\ lastEvent = "loop_ended") =>
         /\ (op' = "pub" => (askResult' = "lost" /\ written' = written))
         /\ (is_connected' => lastEvent' = "connected")
         /\ (websocket' # websocket =>
                lastEvent' \in {"connected", "disconnected"})]_vars

C11_Witness ==
    /\ adapter = "RemoteTunnel"
    /\ lastEvent = "loop_ended"
    /\ op = "pub"
    /\ askResult = "lost"
    /\ pubWhy = "not_connected"
    /\ websocket # <<>>
    /\ sock[Head(websocket)] = "closed"
    /\ loop[Head(websocket)].pc = "done"

\* C15: after disconnect() on a RemoteTunnel, OpenCodeClient or AgnoClient the
\* call has returned without raising, is_connected is False and the socket
\* the adapter holds, if any, is closed.
C15_DisconnectLeavesClosed ==
    lastEvent \in {"disconnected", "disconnect_raised"} =>
        /\ lastEvent = "disconnected"
        /\ ~is_connected
        /\ (websocket # <<>> => sock[Head(websocket)] = "closed")

\* C16: once RemoteTunnel.disconnect() has returned, no receive loop of the
\* tunnel is running a subscriber callback and none is waiting for frames on
\* a socket that is still open.
C16_NoLoopAfterDisconnect ==
    (adapter = "RemoteTunnel" /\ lastEvent = "disconnected") =>
        \A l \in Conns :
            /\ loop[l].pc # "callback"
            /\ ~(loop[l].pc = "recv" /\ sock[Head(loop[l].reading)] = "open")

Reading(l) == loop[l].pc \in {"recv", "callback"}

\* C17: a RemoteTunnel never has two receive loops reading or handling frames
\* at the same time, whatever the sequence of connect() and disconnect()
\* calls.
C17_AtMostOneLoop ==
    adapter = "RemoteTunnel" =>
        \A l, m \in Conns : (Reading(l) /\ Reading(m)) => l = m

\* C18: after a connect() whose socket could not be opened, is_connected is
\* False whatever it was before the call, and the call started no receive
\* loop.
C18_FailedConnectClearsConnected ==
    lastEvent = "connect_failed" =>
        /\ ~is_connected
        /\ loop[connects].pc = "none"

\* C19: on a RemoteTunnel the next frame of a socket is not read and handed to
\* the subscriber callback while the awaited callback for an earlier frame of
\* that socket has not returned.
C19_NextFrameAfterCallbackReturned ==
    adapter = "RemoteTunnel" =>
        \A l, m \in Conns :
            (/\ loop[l].pc = "callback"
             /\ loop[m].pc = "callback"
             /\ loop[l].reading = loop[m].reading) => l = m

\* C12: when a RemoteTunnel loop reads a frame that is not JSON, the loop
\* stays in its read position, is_connected keeps its value and no callback is
\* invoked; and a content-bearing frame read right after such a frame, with a
\* callback registered, is handed to the callback.
C12_BadFrameDropped ==
    [][(adapter = "RemoteTunnel" /\ rx' # rx) =>
         /\ (rx'[Len(rx')] = "not_json" =>
                /\ lpc' = "recv"
                /\ is_connected' = is_connected
                /\ calls' = calls)
         /\ (/\ rx # <<>>
             /\ rx[Len(rx)] = "not_json"
             /\ HasContent(rx'[Len(rx')])
             /\ has_callback
             => (calls' = Append(calls, Len(rx')) /\ lpc' = "callback"))]_vars

C12_Witness ==
    /\ adapter = "RemoteTunnel"
    /\ Len(rx) = 2
    /\ rx[1] = "not_json"
    /\ HasContent(rx[2])
    /\ calls = <<2>>
    /\ is_connected

\* C13: when a GooseClient loop reads a frame that is not JSON, the loop
\* stays in its read position, is_connected keeps its value and the buffer of
\* partial content is kept.
C13_GooseBadFrameSkipped ==
    [][(adapter = "GooseClient" /\ rx' = Append(rx, "not_json")) =>
         /\ lpc' = "recv"
         /\ is_connected' = is_connected
         /\ buffer' = buffer]_vars

\* C14: whenever the receive loop of a RemoteTunnel, OpenCodeClient or
\* GooseClient has ended, is_connected is False.
C14_LoopEndedNotConnected ==
    lpc = "done" => ~is_connected

\* C20: when a RemoteTunnel loop reads a frame of type tasks, no callback is
\* invoked for it, the loop goes on reading, and nothing is published.
C20_TasksEchoIgnored ==
    [][(adapter = "RemoteTunnel" /\ rx' = Append(rx, "tasks")) =>
         /\ calls' = calls
         /\ lpc' = "recv"
         /\ written' = written
         /\ pubResult' = pubResult]_vars

C20_Witness ==
    /\ adapter = "RemoteTunnel"
    /\ has_callback
    /\ Len(rx) = 2
    /\ rx[1] = "tasks"
    /\ rx[2] = "task_response"
    /\ calls = <<2>>

\* C21: when a RemoteTunnel loop with a registered callback reads a
\* task-update frame with status running and a non-empty message, the callback
\* is invoked for that frame.
C21_RunningUpdateDelivered ==
    [][(/\ adapter = "RemoteTunnel"
        /\ has_callback
        /\ rx' = Append(rx, "task_update_running"))
       => calls' = Append(calls, Len(rx'))]_vars

FailureKinds == {"task_response", "task_update_final", "error"}

\* C24: when a RemoteTunnel or OpenCodeClient loop with a registered callback
\* reads a frame that reports an executor-side failure (a task-response
\* carrying error, a task-update with status error, an error envelope), the
\* callback is invoked for that frame.
C24_FailureReachesCallback ==
    [][(/\ adapter \in {"RemoteTunnel", "OpenCodeClient"}
        /\ has_callback
        /\ rx' # rx
        /\ rx'[Len(rx')] \in FailureKinds)
       => calls' = Append(calls, Len(rx'))]_vars

TerminalKinds == {"complete", "error", "cancelled"}

RECURSIVE ChunksSinceTerminal(_)
\* The positions of the response chunks in frames fs that follow the last
\* terminal frame of fs, in arrival order.
ChunksSinceTerminal(fs) ==
    IF fs = <<>> \/ fs[Len(fs)] \in TerminalKinds THEN <<>>
    ELSE LET front == ChunksSinceTerminal(SubSeq(fs, 1, Len(fs) - 1))
         IN IF fs[Len(fs)] = "response" THEN Append(front, Len(fs)) ELSE front

\* C30: a GooseClient loop invokes no callback for a response chunk; on a
\* complete frame, with a callback registered and chunks received since the
\* previous terminal frame, it invokes the callback once, with exactly those
\* chunks in arrival order; and once a terminal frame has been dealt with the
\* buffer is empty.
C30_GooseFlushOnTerminal ==
    [][adapter = "GooseClient" =>
         /\ (rx' = Append(rx, "response") => calls' = calls)
         /\ (/\ rx' = Append(rx, "complete")
             /\ has_callback
             /\ ChunksSinceTerminal(rx) # <<>>
             => (/\ calls' = Append(calls, Len(rx'))
                 /\ buffer = ChunksSinceTerminal(rx)))
         /\ (/\ rx' # <<>>
             /\ rx'[Len(rx')] \in TerminalKinds
             /\ lpc' # "callback"
             => buffer' = <<>>)]_vars

\* C22: a pub() / send_message() call without a session_id writes nothing and
\* does not report success, and every envelope a call writes carries the
\* session_id the caller passed.
C22_SessionIdRequiredAndCarried ==
    [][op' = "pub" =>
         LET sid == Head(pubArgs').session_id IN
         /\ (~Truthy(sid) => (envelopes' = envelopes /\ pubRet' # "True"))
         /\ (envelopes' # envelopes =>
                envelopes'[Len(envelopes')].session_id = sid)]_vars

\* C23: when an endpoint hands handle_message a message of type message with
\* no session_id, the 'Session ID is required' envelope is written to that
\* endpoint's own socket, no task is started, and the endpoint goes on
\* receiving.
C23_MissingSessionIdAnswered ==
    [][\A c \in SockIds :
         (/\ ep[c].pc = "receive"
          /\ sev' = <<[kind |-> "no_session_id", conn |-> c]>>
          /\ sev' # sev)
         => (/\ lastSend' = <<[to |-> c, kind |-> "session_id_required",
                               by |-> <<>>, re |-> c]>>
             /\ ep'[c].pc = "receive")]_vars

\* C25: a task received on connection c is run by the executor constructed
\* for c, and what an executor writes while running c's task goes to c's
\* socket.
C25_ConnectionBoundToItsExecutor ==
    /\ \A c \in SockIds : ep[c].pc = "task" => ep[c].agent = <<c>>
    /\ (lastSend # <<>> /\ Head(lastSend).kind = "task_output") =>
           (/\ Head(lastSend).by = <<Head(lastSend).re>>
            /\ Head(lastSend).to = Head(lastSend).re)

NoManagerState ==
    [websocket |-> <<>>, agent |-> <<>>, connection_id |-> <<>>, user_id |-> <<>>]

Bump(i, k) == [i EXCEPT ![k] = @ + 1]

\* C27: create_agent called with a name that is registered instantiates the
\* class registered under that name and no other; called with a name that no
\* registered name matches, also after lower-casing, it raises an error that
\* lists every registered name and instantiates nothing.  The same holds of
\* create_assistant / get_assistant_class for tiers.
C27_CreateByName ==
    [][(fcall' # <<>> /\ (instances' # instances \/ fcall' # fcall))
       => LET call == Head(fcall')
              reg == IF call.fn = "create_agent" THEN registry ELSE AssistantRegistry
          IN (call.fn \in {"create_agent", "create_assistant"} /\ call.arg # <<>>) =>
             /\ (Lookup(reg, call.name) # <<>> =>
                    /\ ~call.raised
                    /\ instances' = Bump(instances, Head(Lookup(reg, call.name))))
             /\ ((Lookup(reg, call.name) = <<>> /\ Lookup(reg, Lower(call.name)) = <<>>) =>
                    /\ call.raised
                    /\ call.listed = Keys(reg)
                    /\ instances' = instances)]_vars

\* C28: whenever register_agent(name, cls) has been called and the name is
\* still registered to cls, create_agent(name) returns an instance of cls,
\* and list_agents() contains the name right after the registration.
C28_RegisterThenCreate ==
    [][(fcall' # <<>> /\ fcall' # fcall) =>
         LET call == Head(fcall') IN
         /\ (call.fn = "register_agent" => call.name \in call.listed)
         /\ (/\ call.fn = "create_agent"
             /\ call.arg # <<>>
             /\ call.name \in RegisterNames
             /\ registry[call.name] # <<>>
             => (~call.raised /\ call.result = registry[call.name]))]_vars

\* C29: the TaskUpdate decoded from the envelope of send_task_update equals
\* the TaskUpdate that was sent, field by field.
C29_TaskUpdateRoundTrip ==
    decoded # <<>> => Head(decoded) = task_update

\* C36: a receive loop started by an earlier RemoteTunnel.connect() never
\* reads from the socket opened by a later connect(), and when it ends it
\* never sets is_connected to False for that later connection.
C36_StaleLoopLeavesLaterConnection ==
    [][adapter = "RemoteTunnel" =>
         \A l \in Conns :
            /\ (loop'[l].pc = "recv" /\ loop'[l].reading # <<>>)
                   => Head(loop'[l].reading) <= l
            /\ (/\ loop[l].pc # "done"
                /\ loop'[l].pc = "done"
                /\ websocket # <<>>
                /\ Head(websocket) > l
                /\ is_connected)
                   => is_connected']_vars

\* C37: when two inbound connections overlap, the disconnect of one never
\* clears the executor/websocket binding the manager holds while the other
\* is still open, so the surviving connection's messages still find an
\* executor.
C37_DisconnectSparesOtherConnection ==
    [][\A c, d \in SockIds :
          (/\ c # d
           /\ ep[c].pc = "receive"
           /\ ep'[c].pc = "closed"
           /\ ep[d].pc \in {"receive", "task"})
              => /\ mgr'.agent # <<>>
                 /\ mgr'.websocket # <<>>]_vars

\* C38: when executor initialization fails in connect(), no envelope is sent
\* and the manager holds no connection state afterwards: websocket,
\* connection_id and user_id are None and connection_count() is 0.
C38_FailedInitLeavesNoState ==
    [][\A c \in SockIds :
          (ep[c].pc = "initializing" /\ ep'[c].pc = "closed")
              => /\ lastSend' = lastSend
                 /\ mgr'.websocket = <<>>
                 /\ mgr'.connection_id = <<>>
                 /\ mgr'.user_id = <<>>
                 /\ connection_count(mgr') = 0]_vars

\* C34: when the executor raises while running connection c's task, the
\* error envelope for that task is written to c, the caller, and the
\* endpoint of c goes back to receiving.
C34_TaskErrorAnsweredToCaller ==
    [][\A c \in SockIds :
          (ep[c].pc = "task" /\ sev' = <<[kind |-> "task_raised", conn |-> c]>>)
              => /\ lastSend' = <<[to |-> c, kind |-> "task_error",
                                   by |-> <<>>, re |-> c]>>
                 /\ ep'[c].pc = "receive"]_vars

\* C39: in GooseClient, a well-formed frame of any type received while no
\* callback is registered never ends the receive loop and never changes
\* is_connected: the loop goes on to the next frame.
C39_GooseFrameWithoutCallbackDropped ==
    [][(/\ adapter = "GooseClient"
        /\ ~has_callback
        /\ lpc = "recv"
        /\ is_connected
        /\ \E f \in FrameKinds \ {"not_json"} : rx' = Append(rx, f))
           => /\ lpc' = "recv"
              /\ is_connected' = is_connected]_vars

\* C31: while a delegated task is in flight (published, and no completed,
\* needs_input or error update received for it yet), a second
\* ask_computer_agent call for the same task publishes nothing.
C31_NoDuplicateDelegation ==
    [][\A m \in Tasks :
          (/\ m \in in_flight
           /\ op' = "pub"
           /\ pubArgs' # <<>>
           /\ Head(pubArgs').message = m)
              => envelopes' = envelopes]_vars

\* C32: with a callback registered, a cf_agent_state sync invokes the
\* callback for a task exactly when the sync is not the first one and shows
\* the task in state pending-user-feedback while the state recorded for it
\* before was different or absent; the first sync invokes nothing, and a
\* sync repeating the recorded state invokes nothing for that task.
InvokedFor(a) == {a.invoked[i] : i \in 1..Len(a.invoked)}

ShownAs(a, t) == {a.shown[i].state : i \in {j \in 1..Len(a.shown) : a.shown[j].id = t}}

C32_CallbackOnTransitionOnly ==
    [][(atlas'.syncs = atlas.syncs + 1 /\ atlas.callback) =>
         \A t \in AtlasTasks :
            t \in InvokedFor(atlas') <=>
               /\ atlas.initialized
               /\ ShownAs(atlas', t) = {"pending-user-feedback"}
               /\ atlas.task_states[t] # <<"pending-user-feedback">>]_vars

\* C33: a stream whose task was started and which did not time out ends
\* only after the client was sent the result event, and that event is the
\* last data event of the stream, whatever lifecycle events came before it.
C33_ResultIsLastEvent ==
    (/\ stream.gen = "ended"
     /\ stream.task # "none"
     /\ \A i \in 1..Len(stream.sent) : stream.sent[i] # "timeout")
        => /\ stream.sent # <<>>
           /\ stream.sent[Len(stream.sent)] = "result"

\* C35: POST /query for a session_id that has no session is answered with
\* status 404 and no client is sent anything; create_session for an id that
\* already has a session returns the client held for it and constructs no
\* second one.
C35_MissingSession404AndCreateIdempotent ==
    [][\A sid \in DeskSessions :
          /\ (/\ session_manager.sessions[sid] = <<>>
              /\ session_manager'.last # session_manager.last
              /\ session_manager'.last # <<>>
              /\ Head(session_manager'.last).op = "query"
              /\ Head(session_manager'.last).sid = sid)
                 => /\ Head(session_manager'.last).status = "404"
                    /\ session_manager'.asked = session_manager.asked
          /\ (/\ session_manager.sessions[sid] # <<>>
              /\ session_manager'.last # <<>>
              /\ Head(session_manager'.last).op = "create"
              /\ Head(session_manager'.last).sid = sid
              /\ session_manager'.sessions = session_manager.sessions)
                 => /\ Head(session_manager'.last).client
                          = session_manager.sessions[sid]
                    /\ session_manager'.made = session_manager.made]_vars
====
